---- MODULE Spec2Model ----
(***************************************************************************)
(* Rust-Audio-Slicer: the energy-based slicer (src/slicer.rs) and the      *)
(* parallel batch orchestrator (src/main.rs).                              *)
(*                                                                         *)
(* Sample values are integers in units of 1/1000 of full scale (0.5 is     *)
(* 500).  A sample buffer (&[f32]) is held in run-length form: a sequence  *)
(* of runs [n |-> count, x |-> value]; SampleAt and SamplesLen read it as  *)
(* the flat buffer.  RMS comparisons are done on squares in exact integer  *)
(* arithmetic: sqrt(sum/n) < t  iff  sum < t*t*n  for t >= 0.              *)
(***************************************************************************)
EXTENDS Integers, Sequences, FiniteSets, TLC

VARIABLES
    build,      \* [overflow_checks: BOOLEAN], the cargo profile of the binary
    cfg,        \* SlicerConfig handed to Slicer::new
    samples,    \* the buffer handed to Slicer::slice (run-length form)
    slicer,     \* Option<Slicer>: <<>> or <<record>>
    scan,       \* locals of Slicer::slice
    pc,         \* position of the slicer run
    mrg,        \* merge_short_chunks experiment: input, output, output of output
    batch,      \* state of process_slice_command
    sil         \* is_silence experiment: buffer, parameters, returned value

vars == <<build, cfg, samples, slicer, scan, pc, mrg, batch, sil>>

\* what a step of the batch orchestrator leaves alone
others == <<build, cfg, samples, slicer, scan, pc, mrg, sil>>

----------------------------------------------------------------------------
(* Bounds of the explored inputs *)

MaxMs == 4          \* millisecond parameters range over 0..MaxMs
MaxRuns == 3        \* runs per generated buffer
MaxRunLen == 2      \* samples per run
MaxChunks == 3      \* chunks per generated chunk list
MaxFrame == 6       \* generated chunks lie in 0..MaxFrame
MaxMergeMs == 6     \* max_duration_ms ranges over 0..MaxMergeMs
MaxThreads == 2     \* --threads ranges over 1..MaxThreads

\* usize is 64 bits wide on the supported targets; TLC's integers are not, so
\* the model wraps at 2^UsizeBits.  Every other modelled quantity is far
\* below either modulus, so a wrapped difference is "huge" in both.
UsizeBits == 24
UsizeMod == 2^UsizeBits
UsizeMax == UsizeMod - 1

Levels == {0, 12, 500}
SampleRates == {400, 1000}
HopMsValues == 0..2
ThresholdDbs == {-40}

Min(a, b) == IF a < b THEN a ELSE b

----------------------------------------------------------------------------
(* Option<T> as a sequence of length 0 or 1 *)

None == <<>>
Some(v) == <<v>>
IsSome(o) == Len(o) = 1
Unwrap(o) == o[1]

----------------------------------------------------------------------------
(* The sample buffer *)

RECURSIVE SamplesLen(_)
SamplesLen(s) ==
    IF s = <<>> THEN 0 ELSE s[1].n + SamplesLen(Tail(s))

\* samples[k], k counted from 0
RECURSIVE SampleAt(_, _)
SampleAt(s, k) ==
    IF k < s[1].n THEN s[1].x ELSE SampleAt(Tail(s), k - s[1].n)

\* sum of x*x over samples[lo..hi), split in halves to keep the recursion shallow
RECURSIVE SumSq(_, _, _)
SumSq(s, lo, hi) ==
    IF hi <= lo THEN 0
    ELSE IF hi = lo + 1 THEN SampleAt(s, lo) * SampleAt(s, lo)
    ELSE LET mid == (lo + hi) \div 2
         IN  SumSq(s, lo, mid) + SumSq(s, mid, hi)

----------------------------------------------------------------------------
(* Slicer::new *)

\* (n / d).round() for n >= 0, d > 0: f32::round rounds half away from zero
RoundDiv(n, d) == (2 * n + d) \div (2 * d)

\* (x / hop_size as f32).round() as usize, x = n / d >= 0.  Division by 0.0
\* gives +inf (x > 0) or NaN (x = 0); `as usize` saturates +inf to usize::MAX
\* and sends NaN to 0.
RoundDivHop(n, d, hop) ==
    IF hop = 0 THEN (IF n > 0 THEN UsizeMax ELSE 0)
    ELSE RoundDiv(n, d * hop)

\* 10f32.powf(threshold_db / 20.0) in sample units (1/1000 of full scale).
\* Multiples of 20 dB are exact powers of ten; -55 dB is 1.778, held as 2.
Threshold(db) ==
    CASE db = -60 -> 1
      [] db = -55 -> 2
      [] db = -40 -> 10
      [] db = -20 -> 100
      [] db = 0   -> 1000

\* ConfigValid without the max_silence check
ConfigValid_NoSilenceCheck(c) ==
    ~(c.min_length_ms < c.min_interval_ms \/ c.min_interval_ms < c.hop_size_ms)

ConfigValid(c) ==
    /\ ~(c.min_length_ms < c.min_interval_ms \/ c.min_interval_ms < c.hop_size_ms)
    /\ ~(c.max_silence_ms < c.hop_size_ms)

\* the message of the Err that Slicer::new returns
ConfigError(c) ==
    IF c.min_length_ms < c.min_interval_ms \/ c.min_interval_ms < c.hop_size_ms
    THEN "min_length >= min_interval >= hop_size"
    ELSE "max_silence >= hop_size"

SlicerNew(c) ==
    IF ~ConfigValid(c) THEN None
    ELSE LET hop_size     == RoundDiv(c.sample_rate * c.hop_size_ms, 1000)
             min_interval == RoundDiv(c.sample_rate * c.min_interval_ms, 1000)
             win_size     == Min(min_interval, 4 * hop_size)
         IN  Some([hop_size     |-> hop_size,
                   win_size     |-> win_size,
                   min_length   |-> RoundDivHop(c.sample_rate * c.min_length_ms, 1000, hop_size),
                   min_interval |-> RoundDivHop(min_interval, 1, hop_size),
                   max_silence  |-> RoundDivHop(c.sample_rate * c.max_silence_ms, 1000, hop_size),
                   threshold    |-> Threshold(c.threshold_db)])

----------------------------------------------------------------------------
(* Slicer::slice *)

\* samples.len().div_ceil(hop_size), hop_size > 0
FrameCount(s, sl) == (SamplesLen(s) + sl.hop_size - 1) \div sl.hop_size

\* rms[i] < threshold.  An empty window gives 0/0 = NaN, and NaN < t is false.
FrameSilent(s, sl, i) ==
    LET start == i * sl.hop_size
        end   == Min(start + sl.win_size, SamplesLen(s))
        n     == end - start
    IN  /\ n > 0
        /\ SumSq(s, start, end) < sl.threshold * sl.threshold * n

\* a - b on usize: wraps when overflow checks are off
WrapSub(a, b) == (a - b) % UsizeMod

ScanInit == [silence_start |-> None, clip_start |-> 0, chunks |-> <<>>]

\* ScanStep with the closing segment ended at the start of the silence run
ScanStep_NoInterval(st, sl, i, silent) ==
    IF silent
    THEN IF IsSome(st.silence_start) THEN st
         ELSE [st EXCEPT !.silence_start = Some(i)]
    ELSE IF ~IsSome(st.silence_start) THEN st
         ELSE LET sil_start == Unwrap(st.silence_start)
                  clip_end  == sil_start
              IN  IF i - sil_start > sl.max_silence
                  THEN [silence_start |-> None,
                        clip_start    |-> clip_end,
                        chunks        |-> IF clip_end - st.clip_start >= sl.min_length
                                          THEN Append(st.chunks, <<st.clip_start, clip_end>>)
                                          ELSE st.chunks]
                  ELSE [st EXCEPT !.silence_start = None]

\* ScanStep with a run of exactly max_silence hops already taken as a gap
ScanStep_GapAtMax(st, sl, i, silent) ==
    IF silent
    THEN IF IsSome(st.silence_start) THEN st
         ELSE [st EXCEPT !.silence_start = Some(i)]
    ELSE IF ~IsSome(st.silence_start) THEN st
         ELSE LET sil_start == Unwrap(st.silence_start)
                  clip_end  == sil_start + sl.min_interval
              IN  IF i - sil_start >= sl.max_silence
                  THEN [silence_start |-> None,
                        clip_start    |-> clip_end,
                        chunks        |-> IF clip_end - st.clip_start >= sl.min_length
                                          THEN Append(st.chunks, <<st.clip_start, clip_end>>)
                                          ELSE st.chunks]
                  ELSE [st EXCEPT !.silence_start = None]

\* One iteration of `for (i, &rms_val) in rms.iter().enumerate()`
ScanStep(st, sl, i, silent) ==
    IF silent
    THEN IF IsSome(st.silence_start) THEN st
         ELSE [st EXCEPT !.silence_start = Some(i)]
    ELSE IF ~IsSome(st.silence_start) THEN st
         ELSE LET sil_start == Unwrap(st.silence_start)
                  clip_end  == sil_start + sl.min_interval
              IN  IF i - sil_start > sl.max_silence
                  THEN [silence_start |-> None,
                        clip_start    |-> clip_end,
                        chunks        |-> IF clip_end - st.clip_start >= sl.min_length
                                          THEN Append(st.chunks, <<st.clip_start, clip_end>>)
                                          ELSE st.chunks]
                  ELSE [st EXCEPT !.silence_start = None]

\* `frame_count - clip_start` panics under overflow checks when it underflows
TailPanics(st, fc, checks) == checks /\ fc < st.clip_start

\* The tail: `if frame_count - clip_start >= self.min_length { push }`
ScanFlush(st, sl, fc) ==
    IF WrapSub(fc, st.clip_start) >= sl.min_length
    THEN Append(st.chunks, <<st.clip_start, fc>>)
    ELSE st.chunks

----------------------------------------------------------------------------
(* merge_short_chunks *)

\* (max_duration_ms as f32 * sample_rate as f32 / 1000.0) as usize truncates
MaxFrames(max_duration_ms, sample_rate) == (max_duration_ms * sample_rate) \div 1000

\* MergeLoop with the cap comparison inverted
RECURSIVE MergeLoop_Inverted(_, _, _, _, _)
MergeLoop_Inverted(rest, cur, merged, max_frames, hop_size) ==
    IF rest = <<>> THEN Append(merged, cur)
    ELSE LET start == rest[1][1]
             end   == rest[1][2]
             current_duration == (WrapSub(cur[2], cur[1]) * hop_size) % UsizeMod
             next_duration    == (WrapSub(end, start) * hop_size) % UsizeMod
         IN  IF (current_duration + next_duration) % UsizeMod >= max_frames
             THEN MergeLoop_Inverted(Tail(rest), <<cur[1], end>>, merged, max_frames, hop_size)
             ELSE MergeLoop_Inverted(Tail(rest), <<start, end>>, Append(merged, cur),
                                     max_frames, hop_size)

\* MergeLoop that starts a new running range without flushing the old one
RECURSIVE MergeLoop_NoFlush(_, _, _, _, _)
MergeLoop_NoFlush(rest, cur, merged, max_frames, hop_size) ==
    IF rest = <<>> THEN Append(merged, cur)
    ELSE LET start == rest[1][1]
             end   == rest[1][2]
             current_duration == (WrapSub(cur[2], cur[1]) * hop_size) % UsizeMod
             next_duration    == (WrapSub(end, start) * hop_size) % UsizeMod
         IN  IF (current_duration + next_duration) % UsizeMod <= max_frames
             THEN MergeLoop_NoFlush(Tail(rest), <<cur[1], end>>, merged, max_frames, hop_size)
             ELSE MergeLoop_NoFlush(Tail(rest), <<start, end>>, merged,
                                    max_frames, hop_size)

\* `for &(start, end) in &chunks[1..]` with the running (current_start, current_end)
RECURSIVE MergeLoop(_, _, _, _, _)
MergeLoop(rest, cur, merged, max_frames, hop_size) ==
    IF rest = <<>> THEN Append(merged, cur)
    ELSE LET start == rest[1][1]
             end   == rest[1][2]
             current_duration == (WrapSub(cur[2], cur[1]) * hop_size) % UsizeMod
             next_duration    == (WrapSub(end, start) * hop_size) % UsizeMod
         IN  IF (current_duration + next_duration) % UsizeMod <= max_frames
             THEN MergeLoop(Tail(rest), <<cur[1], end>>, merged, max_frames, hop_size)
             ELSE MergeLoop(Tail(rest), <<start, end>>, Append(merged, cur),
                            max_frames, hop_size)

MergeShortChunks(chunks, max_duration_ms, sample_rate, hop_size) ==
    IF chunks = <<>> THEN <<>>
    ELSE MergeLoop(Tail(chunks), chunks[1], <<>>,
                   MaxFrames(max_duration_ms, sample_rate), hop_size)

----------------------------------------------------------------------------
(* is_silence, on samples[lo..hi) *)

Abs(x) == IF x < 0 THEN -x ELSE x

\* samples.iter().filter(|&&x| x.abs() > threshold).count()
RECURSIVE CountAbove_AtLeast(_, _, _, _)
CountAbove_AtLeast(s, lo, hi, threshold) ==
    IF hi <= lo THEN 0
    ELSE IF hi = lo + 1 THEN (IF Abs(SampleAt(s, lo)) >= threshold THEN 1 ELSE 0)
    ELSE LET mid == (lo + hi) \div 2
         IN  CountAbove_AtLeast(s, lo, mid, threshold)
                 + CountAbove_AtLeast(s, mid, hi, threshold)

RECURSIVE CountAbove(_, _, _, _)
CountAbove(s, lo, hi, threshold) ==
    IF hi <= lo THEN 0
    ELSE IF hi = lo + 1 THEN (IF Abs(SampleAt(s, lo)) > threshold THEN 1 ELSE 0)
    ELSE LET mid == (lo + hi) \div 2
         IN  CountAbove(s, lo, mid, threshold) + CountAbove(s, mid, hi, threshold)

\* min_audio_ratio is the fraction ratio.num / ratio.den
IsSilence(s, lo, hi, threshold, ratio) ==
    LET n == hi - lo
    IN  \/ n = 0
        \/ SumSq(s, lo, hi) < threshold * threshold * n
        \/ CountAbove(s, lo, hi, threshold) * ratio.den < ratio.num * n

----------------------------------------------------------------------------
(* Specification Spec: one run of Slicer::new followed by Slicer::slice *)

BoundedSeq(S, n) == UNION {[1..k -> S] : k \in 0..n}

Runs == [n : 1..MaxRunLen, x : Levels]
Buffers == BoundedSeq(Runs, MaxRuns)

Configs ==
    [sample_rate     : SampleRates,
     threshold_db    : ThresholdDbs,
     min_length_ms   : 0..MaxMs,
     min_interval_ms : 0..MaxMs,
     hop_size_ms     : HopMsValues,
     max_silence_ms  : 0..MaxMs]

\* 16 kHz, 2 s of amplitude 0.5, 1 s of zeros, 2 s of amplitude 0.5
ScenarioBuffer ==
    <<[n |-> 32000, x |-> 500], [n |-> 16000, x |-> 0], [n |-> 32000, x |-> 500]>>

ScenarioCfg(max_silence_ms) ==
    [sample_rate     |-> 16000,
     threshold_db    |-> -55,
     min_length_ms   |-> 1000,
     min_interval_ms |-> 100,
     hop_size_ms     |-> 5,
     max_silence_ms  |-> max_silence_ms]

ScanIdle == [i |-> 0, frame_count |-> 0, rms_below |-> <<>>, st |-> ScanInit]
MergeIdle == [input |-> <<>>, max_duration_ms |-> 0, sample_rate |-> 0, hop_size |-> 0,
              once |-> <<>>, twice |-> <<>>, pc |-> "off"]
SilenceIdle ==
    [samples |-> <<>>, threshold |-> 0, min_audio_ratio |-> [num |-> 0, den |-> 1],
     result |-> None, pc |-> "off"]

BatchIdle ==
    [pc |-> "off", tree |-> [kind |-> "missing", entries |-> <<>>], pcfg |-> <<>>,
     threads |-> 0, files |-> <<>>, workers |-> <<>>, dirs |-> {}, written |-> {},
     final_stats |-> <<>>, fold_next |-> 0, successful_files |-> 0,
     failed_files |-> <<>>]

Init ==
    /\ build \in [overflow_checks : BOOLEAN]
    /\ \/ cfg \in Configs /\ samples \in Buffers
       \/ cfg \in {ScenarioCfg(800), ScenarioCfg(1200)} /\ samples = ScenarioBuffer
    /\ slicer = None
    /\ scan = ScanIdle
    /\ pc = "new"
    /\ mrg = MergeIdle
    /\ batch = BatchIdle
    /\ sil = SilenceIdle

\* Slicer::new returns Err
NewErr ==
    /\ pc = "new"
    /\ ~IsSome(SlicerNew(cfg))
    /\ pc' = "rejected"
    /\ UNCHANGED <<build, cfg, samples, slicer, scan, mrg, batch, sil>>

\* Slicer::new returns Ok(slicer)
NewOk ==
    /\ pc = "new"
    /\ IsSome(SlicerNew(cfg))
    /\ slicer' = SlicerNew(cfg)
    /\ pc' = "ready"
    /\ UNCHANGED <<build, cfg, samples, scan, mrg, batch, sil>>

\* slice: `samples.len().div_ceil(self.hop_size)` divides by zero
SliceDivZero ==
    /\ pc = "ready"
    /\ Unwrap(slicer).hop_size = 0
    /\ pc' = "panic"
    /\ UNCHANGED <<build, cfg, samples, slicer, scan, mrg, batch, sil>>

\* slice: frame_count and the RMS series
SliceBegin ==
    /\ pc = "ready"
    /\ Unwrap(slicer).hop_size # 0
    /\ LET sl == Unwrap(slicer)
           fc == FrameCount(samples, sl)
       IN  scan' = [i           |-> 0,
                    frame_count |-> fc,
                    rms_below   |-> [k \in 1..fc |-> FrameSilent(samples, sl, k - 1)],
                    st          |-> ScanInit]
    /\ pc' = "scan"
    /\ UNCHANGED <<build, cfg, samples, slicer, mrg, batch, sil>>

\* slice: one iteration of the scan loop
ScanFrame ==
    /\ pc = "scan"
    /\ scan.i < scan.frame_count
    /\ scan' = [scan EXCEPT !.st = ScanStep(scan.st, Unwrap(slicer), scan.i,
                                             scan.rms_below[scan.i + 1]),
                            !.i = scan.i + 1]
    /\ UNCHANGED <<build, cfg, samples, slicer, pc, mrg, batch, sil>>

\* slice: the tail subtraction underflows under overflow checks
SliceTailPanic ==
    /\ pc = "scan"
    /\ scan.i = scan.frame_count
    /\ TailPanics(scan.st, scan.frame_count, build.overflow_checks)
    /\ pc' = "panic"
    /\ UNCHANGED <<build, cfg, samples, slicer, scan, mrg, batch, sil>>

\* slice: the tail is flushed and the chunk list returned
SliceReturn ==
    /\ pc = "scan"
    /\ scan.i = scan.frame_count
    /\ ~TailPanics(scan.st, scan.frame_count, build.overflow_checks)
    /\ scan' = [scan EXCEPT !.st.chunks = ScanFlush(scan.st, Unwrap(slicer),
                                                    scan.frame_count)]
    /\ pc' = "done"
    /\ UNCHANGED <<build, cfg, samples, slicer, mrg, batch, sil>>

Next ==
    \/ NewErr
    \/ NewOk
    \/ SliceDivZero
    \/ SliceBegin
    \/ ScanFrame
    \/ SliceTailPanic
    \/ SliceReturn

Spec == Init /\ [][Next]_vars

----------------------------------------------------------------------------
(* Slicer::slice as one call, for the callers in main.rs *)

RECURSIVE ScanFrom(_, _, _, _, _)
ScanFrom(s, sl, fc, i, st) ==
    IF i >= fc THEN st
    ELSE ScanFrom(s, sl, fc, i + 1, ScanStep(st, sl, i, FrameSilent(s, sl, i)))

\* [panicked |-> TRUE] or the returned chunk list
Slice(s, sl, checks) ==
    IF sl.hop_size = 0 THEN [panicked |-> TRUE, chunks |-> <<>>]
    ELSE LET fc == FrameCount(s, sl)
             st == ScanFrom(s, sl, fc, 0, ScanInit)
         IN  IF TailPanics(st, fc, checks)
             THEN [panicked |-> TRUE, chunks |-> <<>>]
             ELSE [panicked |-> FALSE, chunks |-> ScanFlush(st, sl, fc)]

----------------------------------------------------------------------------
(* main.rs: paths.  A file name is the sequence of its dot-separated parts  *)
(* ("a.wav" is <<"a", "wav">>); an entry is [parent, name, is_file, load],  *)
(* parent being the directory components below the input base.             *)

\* Path::extension: none without a dot, none for a name like ".wav"
HasExtension(name) == Len(name) >= 2 /\ ~(Len(name) = 2 /\ name[1] = "")
Extension(name) == IF HasExtension(name) THEN Some(name[Len(name)]) ELSE None

\* Path::file_stem: the name without its last extension
FileStem(name) == IF HasExtension(name) THEN SubSeq(name, 1, Len(name) - 1) ELSE name

\* str::to_lowercase on the extensions that occur
ToLowercase(e) ==
    CASE e = "WAV" -> "wav"
      [] e = "FLAC" -> "flac"
      [] OTHER -> e

IsAudioFile(name) ==
    /\ IsSome(Extension(name))
    /\ ToLowercase(Unwrap(Extension(name))) \in {"wav", "mp3", "flac", "m4a", "aac", "ogg"}

\* collect_audio_files: [ok |-> FALSE] for Err, else the files found
CollectAudioFiles(tree) ==
    IF tree.kind = "file"
    THEN IF IsAudioFile(tree.entries[1].name)
         THEN [ok |-> TRUE, files |-> tree.entries]
         ELSE [ok |-> FALSE, files |-> <<>>]
    ELSE IF tree.kind = "dir"
    THEN LET found == SelectSeq(tree.entries, LAMBDA e : e.is_file /\ IsAudioFile(e.name))
         IN  IF found = <<>> THEN [ok |-> FALSE, files |-> <<>>]
             ELSE [ok |-> TRUE, files |-> found]
    ELSE [ok |-> FALSE, files |-> <<>>]

\* output_base.join(relative_path.parent()).join(file_stem), below output_base
OutputFileDir(entry) == [parent |-> entry.parent, stem |-> FileStem(entry.name)]

----------------------------------------------------------------------------
(* main.rs: PerformanceStats.  The wall-clock fields (Instant::elapsed) are *)
(* not modelled; durations are in milliseconds, truncated.                 *)

ZeroStats ==
    [total_files           |-> 0,
     processed_files       |-> 0,
     total_audio_duration  |-> 0,
     total_chunks_detected |-> 0,
     total_chunks_merged   |-> 0,
     total_slices_saved    |-> 0,
     total_saved_duration  |-> 0]

\* StatsAdd that leaves out the merged-chunk counter
StatsAdd_NoMerged(self, other) ==
    [self EXCEPT !.processed_files       = @ + other.processed_files,
                 !.total_audio_duration  = @ + other.total_audio_duration,
                 !.total_chunks_detected = @ + other.total_chunks_detected,
                 !.total_slices_saved    = @ + other.total_slices_saved,
                 !.total_saved_duration  = @ + other.total_saved_duration]

\* PerformanceStats::add
StatsAdd(self, other) ==
    [self EXCEPT !.processed_files       = @ + other.processed_files,
                 !.total_audio_duration  = @ + other.total_audio_duration,
                 !.total_chunks_detected = @ + other.total_chunks_detected,
                 !.total_chunks_merged   = @ + other.total_chunks_merged,
                 !.total_slices_saved    = @ + other.total_slices_saved,
                 !.total_saved_duration  = @ + other.total_saved_duration]

\* len as f64 / sample_rate as f64
Duration(len, sample_rate) == (len * 1000) \div sample_rate

----------------------------------------------------------------------------
(* main.rs: process_single_file_threaded, one worker per file *)

NewWorker ==
    [pc                  |-> "pending",
     output_file_dir     |-> None,
     chunks              |-> <<>>,
     next                |-> 1,
     saved_count         |-> 0,
     file_saved_duration |-> 0,
     stats               |-> ZeroStats,
     success             |-> FALSE,
     error               |-> None]

W(i) == batch.workers[i]
File(i) == batch.files[i]
FileIds == 1..Len(batch.files)
Active(i) == W(i).pc \in {"load", "slice", "mkdir", "save"}

\* Failed that reports a partial success once a slice has been saved
Failed_PartialSuccess(w, msg) ==
    [w EXCEPT !.pc = "returned", !.error = Some(msg), !.success = (w.saved_count > 0)]

\* the closure returned Err(e): result.error = Some(e.to_string())
Failed(w, msg) == [w EXCEPT !.pc = "returned", !.error = Some(msg)]

\* slicer_cfg with the file's sample rate
FileCfg(i) == [batch.pcfg.config EXCEPT !.sample_rate = File(i).load.sample_rate]
FileSlicer(i) == Unwrap(SlicerNew(FileCfg(i)))

\* a rayon worker thread takes the file and builds its output path
WorkerStart(i) ==
    /\ batch.pc = "run"
    /\ W(i).pc = "pending"
    /\ Cardinality({j \in FileIds : Active(j)}) < batch.threads
    /\ batch' = [batch EXCEPT !.workers[i].pc = "load",
                              !.workers[i].output_file_dir = Some(OutputFileDir(File(i)))]
    /\ UNCHANGED others

\* load_audio returns Ok((samples, sample_rate))
LoadOk(i) ==
    /\ W(i).pc = "load"
    /\ File(i).load.outcome = "ok"
    /\ batch' = [batch EXCEPT
           !.workers[i].pc = "slice",
           !.workers[i].stats.total_audio_duration =
               @ + Duration(SamplesLen(File(i).load.samples), File(i).load.sample_rate)]
    /\ UNCHANGED others

\* load_audio returns Err (open, probe or decode error)
LoadErr(i) ==
    /\ W(i).pc = "load"
    /\ File(i).load.outcome = "err"
    /\ batch' = [batch EXCEPT !.workers[i] = Failed(@, "decode error")]
    /\ UNCHANGED others

\* load_audio panics: default_track() or codec_params.sample_rate is None
LoadPanic(i) ==
    /\ W(i).pc = "load"
    /\ File(i).load.outcome = "panic"
    /\ batch' = [batch EXCEPT !.workers[i].pc = "panicked"]
    /\ UNCHANGED others

\* Slicer::new(slicer_cfg)? returns Err
SlicerNewErr(i) ==
    /\ W(i).pc = "slice"
    /\ ~IsSome(SlicerNew(FileCfg(i)))
    /\ batch' = [batch EXCEPT !.workers[i] = Failed(@, ConfigError(FileCfg(i)))]
    /\ UNCHANGED others

\* slicer.slice(&samples) panics
SlicePanic(i) ==
    /\ W(i).pc = "slice"
    /\ IsSome(SlicerNew(FileCfg(i)))
    /\ Slice(File(i).load.samples, FileSlicer(i), build.overflow_checks).panicked
    /\ batch' = [batch EXCEPT !.workers[i].pc = "panicked"]
    /\ UNCHANGED others

\* slice, then merge_short_chunks
SliceAndMerge(i) ==
    /\ W(i).pc = "slice"
    /\ IsSome(SlicerNew(FileCfg(i)))
    /\ LET r == Slice(File(i).load.samples, FileSlicer(i), build.overflow_checks)
           merged == MergeShortChunks(r.chunks, batch.pcfg.max_merge_duration_ms,
                                      File(i).load.sample_rate, FileSlicer(i).hop_size)
       IN  /\ ~r.panicked
           /\ batch' = [batch EXCEPT
                  !.workers[i].pc = "mkdir",
                  !.workers[i].chunks = merged,
                  !.workers[i].stats.total_chunks_detected = @ + Len(r.chunks),
                  !.workers[i].stats.total_chunks_merged = @ + Len(merged)]
    /\ UNCHANGED others

\* std::fs::create_dir_all(&output_file_dir)? succeeds
CreateDirOk(i) ==
    /\ W(i).pc = "mkdir"
    /\ batch' = [batch EXCEPT !.workers[i].pc = "save",
                              !.dirs = @ \cup {Unwrap(W(i).output_file_dir)}]
    /\ UNCHANGED others

\* create_dir_all fails
CreateDirErr(i) ==
    /\ W(i).pc = "mkdir"
    /\ batch' = [batch EXCEPT !.workers[i] = Failed(@, "create_dir_all error")]
    /\ UNCHANGED others

\* the sample range of the chunk the save loop is at
StartSample(i) == (W(i).chunks[W(i).next][1] * FileSlicer(i).hop_size) % UsizeMod
EndSample(i) ==
    Min((W(i).chunks[W(i).next][2] * FileSlicer(i).hop_size) % UsizeMod,
        SamplesLen(File(i).load.samples))
InLoop(i) == W(i).pc = "save" /\ W(i).next <= Len(W(i).chunks)
ChunkSilent(i) ==
    IsSilence(File(i).load.samples, StartSample(i), EndSample(i),
              batch.pcfg.silence_threshold, batch.pcfg.min_audio_ratio)

\* &samples[start_sample..end_sample.min(samples.len())] with start past the end
ExtractPanic(i) ==
    /\ InLoop(i)
    /\ StartSample(i) > EndSample(i)
    /\ batch' = [batch EXCEPT !.workers[i].pc = "panicked"]
    /\ UNCHANGED others

\* the chunk is classified silent and dropped
SkipSilent(i) ==
    /\ InLoop(i)
    /\ StartSample(i) <= EndSample(i)
    /\ ChunkSilent(i)
    /\ batch' = [batch EXCEPT !.workers[i].next = @ + 1]
    /\ UNCHANGED others

\* the decimal digits of n
RECURSIVE Digits(_)
Digits(n) == IF n < 10 THEN <<n>> ELSE Append(Digits(n \div 10), n % 10)

\* format!("slice_{n:03}.wav"): zero-padded to at least three digits
SliceName(n) ==
    LET d == Digits(n)
    IN  [prefix |-> "slice_",
         digits |-> IF Len(d) < 3 THEN [k \in 1..(3 - Len(d)) |-> 0] \o d ELSE d,
         ext    |-> "wav"]

\* SliceNumber taken from the position in the chunk list
SliceNumber_ChunkIndex(w) == w.next - 1

\* the number a slice is saved under: saved_count at the time of the save
SliceNumber(w) == w.saved_count

\* save_slice writes slice_{saved_count:03}.wav
SaveOk(i) ==
    /\ InLoop(i)
    /\ StartSample(i) <= EndSample(i)
    /\ ~ChunkSilent(i)
    /\ batch' = [batch EXCEPT
           !.workers[i].next = @ + 1,
           !.workers[i].saved_count = @ + 1,
           !.workers[i].file_saved_duration =
               @ + Duration(EndSample(i) - StartSample(i), File(i).load.sample_rate),
           !.written = @ \cup {[dir |-> Unwrap(W(i).output_file_dir),
                                slice |-> SliceName(SliceNumber(W(i))), by |-> i]}]
    /\ UNCHANGED others

\* save_slice returns Err
SaveErr(i) ==
    /\ InLoop(i)
    /\ StartSample(i) <= EndSample(i)
    /\ ~ChunkSilent(i)
    /\ batch' = [batch EXCEPT !.workers[i] = Failed(@, "write error")]
    /\ UNCHANGED others

\* after the loop: the closure returns Ok(()), result.success = true
WorkerFinish(i) ==
    /\ W(i).pc = "save"
    /\ W(i).next > Len(W(i).chunks)
    /\ batch' = [batch EXCEPT
           !.workers[i].pc = "returned",
           !.workers[i].success = TRUE,
           !.workers[i].stats.total_slices_saved = @ + W(i).saved_count,
           !.workers[i].stats.total_saved_duration = @ + W(i).file_saved_duration,
           !.workers[i].stats.processed_files = @ + 1]
    /\ UNCHANGED others

----------------------------------------------------------------------------
(* main.rs: process_slice_command *)

\* collect_audio_files(&input)? returns Err: the command returns it
CollectErr ==
    /\ batch.pc = "collect"
    /\ ~CollectAudioFiles(batch.tree).ok
    /\ batch' = [batch EXCEPT !.pc = "abort"]
    /\ UNCHANGED others

CollectOk ==
    /\ batch.pc = "collect"
    /\ CollectAudioFiles(batch.tree).ok
    /\ LET files == CollectAudioFiles(batch.tree).files
       IN  batch' = [batch EXCEPT !.pc = "run",
                                  !.files = files,
                                  !.workers = [i \in 1..Len(files) |-> NewWorker]]
    /\ UNCHANGED others

\* a worker's panic is resumed in the calling thread once no task is running
JoinPanic ==
    /\ batch.pc = "run"
    /\ \E i \in FileIds : W(i).pc = "panicked"
    /\ \A i \in FileIds : ~Active(i)
    /\ batch' = [batch EXCEPT !.pc = "panic"]
    /\ UNCHANGED others

\* par_iter().map().collect() returns the results, in file order
JoinAll ==
    /\ batch.pc = "run"
    /\ \A i \in FileIds : W(i).pc = "returned"
    /\ batch' = [batch EXCEPT !.pc = "fold",
                              !.final_stats = [ZeroStats EXCEPT !.total_files = Len(batch.files)],
                              !.fold_next = 1]
    /\ UNCHANGED others

\* `for result in results`, a successful result
FoldSuccess ==
    /\ batch.pc = "fold"
    /\ batch.fold_next <= Len(batch.files)
    /\ W(batch.fold_next).success
    /\ batch' = [batch EXCEPT !.final_stats = StatsAdd(@, W(batch.fold_next).stats),
                              !.successful_files = @ + 1,
                              !.fold_next = @ + 1]
    /\ UNCHANGED others

\* `for result in results`, a failed result
FoldFailure ==
    /\ batch.pc = "fold"
    /\ batch.fold_next <= Len(batch.files)
    /\ ~W(batch.fold_next).success
    /\ LET r == W(batch.fold_next)
       IN  batch' = [batch EXCEPT
               !.failed_files = Append(@, [file  |-> batch.fold_next,
                                           error |-> IF IsSome(r.error) THEN Unwrap(r.error)
                                                     ELSE "unknown error"]),
               !.fold_next = @ + 1]
    /\ UNCHANGED others

\* the report is printed and the command returns Ok(())
CommandReturn ==
    /\ batch.pc = "fold"
    /\ batch.fold_next > Len(batch.files)
    /\ batch' = [batch EXCEPT !.pc = "done"]
    /\ UNCHANGED others

----------------------------------------------------------------------------
(* Specification SpecBatch: one run of process_slice_command *)

\* what load_audio does with a file
LoadMerging ==      \* two chunks that merge into one
    [outcome |-> "ok", sample_rate |-> 1000,
     samples |-> <<[n |-> 1, x |-> 500], [n |-> 2, x |-> 0], [n |-> 2, x |-> 500]>>]
LoadSparse ==       \* three chunks, the middle one mostly silent
    [outcome |-> "ok", sample_rate |-> 1000,
     samples |-> <<[n |-> 2, x |-> 500], [n |-> 4, x |-> 0], [n |-> 1, x |-> 500],
                   [n |-> 4, x |-> 0], [n |-> 2, x |-> 500]>>]
LoadQuiet ==        \* two silent frames closed by a faint last sample
    [outcome |-> "ok", sample_rate |-> 1000,
     samples |-> <<[n |-> 2, x |-> 0], [n |-> 1, x |-> 12]>>]
LoadCorrupt == [outcome |-> "err", sample_rate |-> 0, samples |-> <<>>]
LoadNoTrack == [outcome |-> "panic", sample_rate |-> 0, samples |-> <<>>]

Loads == {LoadMerging, LoadSparse, LoadQuiet, LoadCorrupt, LoadNoTrack}

FileEntry(parent, name, load) ==
    [parent |-> parent, name |-> name, is_file |-> TRUE, load |-> load]
OtherEntry(parent, name, is_file) ==
    [parent |-> parent, name |-> name, is_file |-> is_file, load |-> LoadCorrupt]

InputTrees ==
    \* a directory with files of other kinds, a subdirectory and an upper-case extension
    {[kind |-> "dir",
      entries |-> <<FileEntry(<<>>, <<"a", "wav">>, l1),
                    OtherEntry(<<>>, <<"notes", "txt">>, TRUE),
                    OtherEntry(<<>>, <<"sub", "ogg">>, FALSE),
                    FileEntry(<<"sub", "ogg">>, <<"b", "FLAC">>, l2),
                    FileEntry(<<>>, <<"c", "take1", "mp3">>, l3)>>]
        : l1 \in {LoadMerging, LoadQuiet, LoadCorrupt, LoadNoTrack},
          l2 \in {LoadSparse, LoadCorrupt, LoadNoTrack},
          l3 \in {LoadMerging, LoadQuiet}}
    \cup
    \* two files of one directory with the same stem
    {[kind |-> "dir",
      entries |-> <<FileEntry(<<>>, <<"a", "wav">>, l1),
                    FileEntry(<<>>, <<"a", "mp3">>, l2)>>]
        : l1 \in {LoadMerging, LoadSparse, LoadCorrupt},
          l2 \in {LoadMerging, LoadSparse, LoadCorrupt}}
    \cup
    \* three valid files and a corrupt one
    {[kind |-> "dir",
      entries |-> [k \in 1..4 |->
                      FileEntry(<<>>, <<<<"a", "b", "c", "d">>[k], "wav">>,
                                IF k = bad THEN LoadCorrupt
                                ELSE IF k % 2 = 1 THEN LoadMerging ELSE LoadSparse)]]
        : bad \in 1..4}
    \cup
    {[kind |-> "dir", entries |-> <<OtherEntry(<<>>, <<"notes", "txt">>, TRUE)>>],
     [kind |-> "file", entries |-> <<OtherEntry(<<>>, <<"notes", "txt">>, TRUE)>>],
     [kind |-> "missing", entries |-> <<>>]}
    \cup
    {[kind |-> "file", entries |-> <<FileEntry(<<>>, <<"a", "wav">>, l1)>>] : l1 \in Loads}

\* SlicerConfig as process_slice_command builds it (sample_rate is a placeholder)
CliConfig(min_length_ms, min_interval_ms, hop_size_ms, max_silence_ms) ==
    [sample_rate     |-> 44100,
     threshold_db    |-> -40,
     min_length_ms   |-> min_length_ms,
     min_interval_ms |-> min_interval_ms,
     hop_size_ms     |-> hop_size_ms,
     max_silence_ms  |-> max_silence_ms]

ProcessingConfig(c, max_merge_duration_ms) ==
    [config |-> c, silence_threshold |-> 1, min_audio_ratio |-> [num |-> 3, den |-> 10],
     max_merge_duration_ms |-> max_merge_duration_ms]

ProcessingConfigs ==
    {ProcessingConfig(CliConfig(2, 1, 1, 1), 5),    \* valid
     ProcessingConfig(CliConfig(4, 4, 1, 1), 2),    \* valid, min_interval above max_silence
     ProcessingConfig(CliConfig(0, 1, 1, 1), 5),    \* min_length below min_interval
     ProcessingConfig(CliConfig(2, 2, 2, 1), 5)}    \* max_silence below hop_size

InitBatch ==
    /\ build \in [overflow_checks : BOOLEAN]
    /\ cfg = ScenarioCfg(800)
    /\ samples = <<>>
    /\ slicer = None
    /\ scan = ScanIdle
    /\ pc = "off"
    /\ mrg = MergeIdle
    /\ sil = SilenceIdle
    /\ \E t \in InputTrees, p \in ProcessingConfigs, n \in 1..MaxThreads :
           batch = [BatchIdle EXCEPT !.pc = "collect", !.tree = t, !.pcfg = p,
                                     !.threads = n]

NextBatch ==
    \/ CollectErr
    \/ CollectOk
    \/ \E i \in FileIds : WorkerStart(i)
    \/ \E i \in FileIds : LoadOk(i)
    \/ \E i \in FileIds : LoadErr(i)
    \/ \E i \in FileIds : LoadPanic(i)
    \/ \E i \in FileIds : SlicerNewErr(i)
    \/ \E i \in FileIds : SlicePanic(i)
    \/ \E i \in FileIds : SliceAndMerge(i)
    \/ \E i \in FileIds : CreateDirOk(i)
    \/ \E i \in FileIds : CreateDirErr(i)
    \/ \E i \in FileIds : ExtractPanic(i)
    \/ \E i \in FileIds : SkipSilent(i)
    \/ \E i \in FileIds : SaveOk(i)
    \/ \E i \in FileIds : SaveErr(i)
    \/ \E i \in FileIds : WorkerFinish(i)
    \/ JoinPanic
    \/ JoinAll
    \/ FoldSuccess
    \/ FoldFailure
    \/ CommandReturn

SpecBatch == InitBatch /\ [][NextBatch]_vars

----------------------------------------------------------------------------
(* Properties of Slicer::slice, checked under Spec *)

Returned == pc = "done"
Chunks == scan.st.chunks
Below(i) == scan.rms_below[i + 1]
Frames == 0..(scan.frame_count - 1)

\* C1: for every buffer and every accepted configuration the returned list
\* is strictly increasing and non-overlapping (start < end, start >= the
\* previous end) and every chunk is at least min_length hops long.
C1_SliceOrdered ==
    Returned =>
        \A k \in 1..Len(Chunks) :
            /\ Chunks[k][1] < Chunks[k][2]
            /\ k > 1 => Chunks[k][1] >= Chunks[k - 1][2]
            /\ Chunks[k][2] - Chunks[k][1] >= Unwrap(slicer).min_length

\* C2: when every frame's RMS is below the threshold, slice returns no chunk.
C2_AllSilentNoChunks ==
    (Returned /\ \A i \in Frames : Below(i)) => Chunks = <<>>

\* a silence run that a loud frame closes and that is longer than max_silence
LongClosedRun ==
    \E a \in Frames, i \in Frames :
        /\ a < i
        /\ i - a > Unwrap(slicer).max_silence
        /\ ~Below(i)
        /\ \A j \in a..(i - 1) : Below(j)

\* C7: hop 80, min_length 200, min_interval 20, max_silence 160 hops and the
\* 2 s loud / 1 s zeros / 2 s loud buffer (1000 frames, window of 4 hops):
\* slice returns exactly two chunks, the first ending min_interval hops after
\* the start of the silence, the second from there to frame_count.
C7_ScenarioSplits ==
    (Returned /\ cfg = ScenarioCfg(800) /\ samples = ScenarioBuffer) =>
        /\ Unwrap(slicer).hop_size = 80
        /\ Unwrap(slicer).win_size = 4 * 80
        /\ Unwrap(slicer).min_length = 200
        /\ Unwrap(slicer).min_interval = 20
        /\ Unwrap(slicer).max_silence = 160
        /\ scan.frame_count = 1000
        /\ ~Below(399) /\ Below(400)
        /\ Chunks = << <<0, 400 + 20>>, <<400 + 20, 1000>> >>

C7_Witness ==
    /\ Returned /\ cfg = ScenarioCfg(800) /\ samples = ScenarioBuffer
    /\ Len(Chunks) = 2

\* C8: if no silence run closed by a loud frame is longer than max_silence
\* and frame_count >= min_length, slice returns exactly (0, frame_count).
C8_OneChunk ==
    (Returned /\ ~LongClosedRun /\ scan.frame_count >= Unwrap(slicer).min_length) =>
        Chunks = << <<0, scan.frame_count>> >>

\* a tolerated silence run: closed by a loud frame, not longer than max_silence
C8_Witness ==
    /\ Returned /\ ~LongClosedRun
    /\ scan.frame_count >= Unwrap(slicer).min_length
    /\ \E a \in Frames, i \in Frames : a < i /\ Below(a) /\ ~Below(i)
    /\ Chunks = << <<0, scan.frame_count>> >>

\* the 1 s gap tolerated under max_silence_ms = 1200
C8_ScenarioWitness ==
    /\ Returned /\ cfg = ScenarioCfg(1200) /\ samples = ScenarioBuffer
    /\ Chunks = << <<0, 1000>> >>

----------------------------------------------------------------------------
(* Specification SpecMerge: merge_short_chunks applied to a chunk list and *)
(* then to its own output                                                  *)

\* ordered, non-overlapping chunk lists
OrderedChunks(c) ==
    \A k \in 1..Len(c) :
        /\ c[k][1] < c[k][2]
        /\ k > 1 => c[k][1] >= c[k - 1][2]

ChunkLists ==
    {c \in BoundedSeq((0..MaxFrame) \X (0..MaxFrame), MaxChunks) : OrderedChunks(c)}

InitMerge ==
    /\ build = [overflow_checks |-> TRUE]
    /\ cfg = ScenarioCfg(800)
    /\ samples = <<>>
    /\ slicer = None
    /\ scan = ScanIdle
    /\ pc = "off"
    /\ batch = BatchIdle
    /\ sil = SilenceIdle
    /\ \E c \in ChunkLists, d \in 0..MaxMergeMs, h \in 1..2 :
           mrg = [input |-> c, max_duration_ms |-> d, sample_rate |-> 1000,
                  hop_size |-> h, once |-> <<>>, twice |-> <<>>, pc |-> "input"]

MergeOnce ==
    /\ mrg.pc = "input"
    /\ mrg' = [mrg EXCEPT !.once = MergeShortChunks(mrg.input, mrg.max_duration_ms,
                                                    mrg.sample_rate, mrg.hop_size),
                          !.pc = "once"]
    /\ UNCHANGED <<build, cfg, samples, slicer, scan, pc, batch, sil>>

MergeAgain ==
    /\ mrg.pc = "once"
    /\ mrg' = [mrg EXCEPT !.twice = MergeShortChunks(mrg.once, mrg.max_duration_ms,
                                                     mrg.sample_rate, mrg.hop_size),
                          !.pc = "twice"]
    /\ UNCHANGED <<build, cfg, samples, slicer, scan, pc, batch, sil>>

NextMerge == MergeOnce \/ MergeAgain

SpecMerge == InitMerge /\ [][NextMerge]_vars

\* the frames a chunk list covers
Covered(c) == UNION {c[k][1]..(c[k][2] - 1) : k \in 1..Len(c)}

Merged == mrg.pc \in {"once", "twice"}

\* C5 as stated: the output of merge_short_chunks covers exactly the frames
\* of its input; gaps between non-adjacent input chunks are never filled.
C5_SameCover ==
    Merged => Covered(mrg.once) = Covered(mrg.input)

\* C5 (amended): the output covers every input frame; each output range runs
\* from the start of an input chunk to the end of the same or a later one,
\* and a frame outside every input range is covered exactly when it lies in
\* the gap between two consecutive input chunks that one output range joins.
C5_CoverWithMergedGaps ==
    Merged =>
        LET in  == mrg.input
            out == mrg.once
            Joined(k) == \E m \in 1..Len(out) :
                             out[m][1] <= in[k][1] /\ in[k + 1][2] <= out[m][2]
        IN  /\ Covered(in) \subseteq Covered(out)
            /\ OrderedChunks(out)
            /\ \A m \in 1..Len(out) :
                   \E j \in 1..Len(in), k \in 1..Len(in) :
                       j <= k /\ out[m] = <<in[j][1], in[k][2]>>
            /\ \A f \in 0..MaxFrame :
                   (f \in Covered(out) /\ f \notin Covered(in)) <=>
                       \E k \in 1..(Len(in) - 1) :
                           in[k][2] <= f /\ f < in[k + 1][1] /\ Joined(k)

\* a merge that fills a gap, with a second output range after it
C5_Witness ==
    /\ Merged
    /\ Covered(mrg.once) # Covered(mrg.input)
    /\ Len(mrg.once) = 2

\* C9: merge_short_chunks applied to its own output returns that output.
C9_Idempotent ==
    mrg.pc = "twice" => mrg.twice = mrg.once

C9_Witness ==
    /\ mrg.pc = "twice"
    /\ Len(mrg.once) >= 2
    /\ Len(mrg.once) < Len(mrg.input)
    /\ mrg.twice = mrg.once

----------------------------------------------------------------------------
(* Properties of the batch orchestrator, checked under SpecBatch *)

Successes == {i \in FileIds : W(i).success}

\* C3: a failure while processing one file does not abort the others: the
\* command never dies of it, it returns success with exactly one result per
\* file, every result is a success or a failure with a non-empty message,
\* and the successes are the folded files.
C3_FailuresIsolated ==
    /\ batch.pc # "panic"
    /\ batch.pc = "done" =>
           /\ batch.successful_files + Len(batch.failed_files) = Len(batch.files)
           /\ batch.successful_files = Cardinality(Successes)
           /\ batch.final_stats.processed_files = Cardinality(Successes)
           /\ \A k \in 1..Len(batch.failed_files) :
                  /\ ~W(batch.failed_files[k].file).success
                  /\ batch.failed_files[k].error \notin {"", "unknown error"}

\* a SlicerConfig invariant violation, as section 3 of the specification words it
InvariantViolated(c) ==
    \/ c.min_length_ms < c.min_interval_ms
    \/ c.min_interval_ms < c.hop_size_ms
    \/ c.max_silence_ms < c.hop_size_ms

EnumerationFails == ~CollectAudioFiles(batch.tree).ok

\* C4 as stated: an invariant violation aborts the command before any file
\* is loaded or any output directory created, and nothing else aborts the
\* command before a file is processed.
C4_ConfigFatalFirst ==
    /\ (InvariantViolated(batch.pcfg.config) /\ batch.pc # "collect") =>
           /\ batch.pc = "abort"
           /\ \A i \in FileIds : W(i).pc = "pending"
           /\ batch.dirs = {}
    /\ batch.pc = "abort" => InvariantViolated(batch.pcfg.config)

\* C4 (amended): an invariant violation is raised by Slicer::new inside each
\* file's worker, after that file was loaded.  It creates no output directory
\* and writes no slice; every file that returns is a failure carrying the
\* decode error or the invariant message, nothing is folded, and the command
\* returns success with all files failed.  The command aborts before any file
\* is processed exactly when the enumeration of the input fails.
C4_ConfigErrorPerFile ==
    /\ InvariantViolated(batch.pcfg.config) =>
           /\ batch.dirs = {} /\ batch.written = {}
           /\ \A i \in FileIds :
                  /\ W(i).pc \in {"pending", "load", "slice", "returned", "panicked"}
                  /\ W(i).pc = "returned" =>
                         /\ ~W(i).success
                         /\ W(i).error \in {Some("decode error"),
                                            Some(ConfigError(batch.pcfg.config))}
                  /\ W(i).error = Some(ConfigError(batch.pcfg.config)) =>
                         File(i).load.outcome = "ok"
           /\ batch.pc = "done" =>
                  /\ batch.successful_files = 0
                  /\ Len(batch.failed_files) = Len(batch.files)
                  /\ batch.final_stats = [ZeroStats EXCEPT !.total_files = Len(batch.files)]
    /\ batch.pc = "abort" => (EnumerationFails /\ batch.files = <<>>)
    /\ (EnumerationFails /\ batch.pc # "collect") => batch.pc = "abort"

\* an invalid configuration, a loaded file failed by it, the command returned
C4_Witness ==
    /\ InvariantViolated(batch.pcfg.config)
    /\ batch.pc = "done"
    /\ \E i \in FileIds :
           /\ File(i).load.outcome = "ok"
           /\ W(i).error = Some(ConfigError(batch.pcfg.config))

\* C6: no two input files of a batch are assigned the same output
\* subdirectory, and no output path is written by two workers.
C6_DisjointOutputs ==
    /\ \A i \in FileIds, j \in FileIds :
           (i # j /\ IsSome(W(i).output_file_dir) /\ IsSome(W(j).output_file_dir)) =>
               W(i).output_file_dir # W(j).output_file_dir
    /\ \A a \in batch.written, b \in batch.written :
           (a.dir = b.dir /\ a.slice = b.slice) => a.by = b.by

RECURSIVE SumStats(_, _)
SumStats(S, field) ==
    IF S = {} THEN 0
    ELSE LET i == CHOOSE x \in S : TRUE
         IN  W(i).stats[field] + SumStats(S \ {i}, field)

\* the audio files below the input path
Enumerated ==
    {k \in DOMAIN batch.tree.entries :
        batch.tree.entries[k].is_file /\ IsAudioFile(batch.tree.entries[k].name)}

FoldedSoFar == {i \in Successes : i < batch.fold_next}

\* C10: the aggregate is folded only after every worker has returned; in
\* every interleaving the final processed-files, chunks-detected,
\* chunks-merged and slices-saved counters are the sums over exactly the
\* successful files, and total_files is the number of enumerated files.
C10_FoldAfterJoin ==
    /\ batch.pc \in {"collect", "run", "abort", "panic"} =>
           batch.final_stats = <<>> /\ batch.successful_files = 0
    /\ batch.pc \in {"fold", "done"} =>
           /\ \A i \in FileIds : W(i).pc = "returned"
           /\ batch.final_stats.total_files = Cardinality(Enumerated)
           /\ batch.final_stats.processed_files = Cardinality(FoldedSoFar)
           /\ \A f \in {"total_chunks_detected", "total_chunks_merged",
                        "total_slices_saved"} :
                  batch.final_stats[f] = SumStats(FoldedSoFar, f)
    /\ batch.pc = "done" => FoldedSoFar = Successes

\* two successes folded, next to a failed file whose counters are not zero
C10_Witness ==
    /\ batch.pc = "done"
    /\ Cardinality(Successes) >= 2
    /\ batch.final_stats.total_slices_saved > 0
    /\ batch.final_stats.total_chunks_merged < batch.final_stats.total_chunks_detected
    /\ \E i \in FileIds : ~W(i).success /\ W(i).stats.total_chunks_detected > 0

\* the files whose save loop stopped on a write error
WriteFailed == {i \in FileIds : W(i).error = Some("write error")}

StatFields ==
    {"processed_files", "total_audio_duration", "total_chunks_detected",
     "total_chunks_merged", "total_slices_saved", "total_saved_duration"}

\* C11: when persisting one slice of a file fails, the file is reported as
\* failed with an error message even if earlier slices of it were written,
\* and none of its counters or durations reach the aggregate.
C11_NoPartialSuccess ==
    \A i \in WriteFailed :
        /\ W(i).pc = "returned"
        /\ ~W(i).success
        /\ W(i).stats.total_slices_saved = 0
        /\ W(i).stats.processed_files = 0
        /\ batch.pc \in {"fold", "done"} =>
               /\ i \notin FoldedSoFar
               /\ \A f \in StatFields :
                      batch.final_stats[f] = SumStats(FoldedSoFar \ {i}, f)
        /\ batch.pc = "done" =>
               \E k \in 1..Len(batch.failed_files) :
                   batch.failed_files[k] = [file |-> i, error |-> "write error"]

\* a file failed on its second or later slice, after the command returned
C11_Witness ==
    /\ batch.pc = "done"
    /\ \E i \in WriteFailed :
           /\ W(i).saved_count >= 1
           /\ \E w \in batch.written : w.by = i
           /\ W(i).stats.total_chunks_detected > 0
    /\ Successes # {}

\* the slice names file i has written
NamesWritten(i) == {w.slice : w \in {x \in batch.written : x.by = i}}

\* C12: the persisted slices of a file are numbered from 0 in chunk order
\* without holes; a chunk dropped as silent consumes no number, and after a
\* successful run that saved k slices the names are slice_000..slice_(k-1)
\* and the slices-saved counter is k.
C12_SequentialNames ==
    \A i \in FileIds :
        /\ W(i).pc \in {"save", "returned", "panicked"} =>
               NamesWritten(i) = {SliceName(k) : k \in 0..(W(i).saved_count - 1)}
        /\ W(i).success =>
               /\ W(i).stats.total_slices_saved = W(i).saved_count
               /\ Cardinality(NamesWritten(i)) = W(i).saved_count

\* a successful file that saved a slice after dropping a silent chunk
C12_Witness ==
    \E i \in FileIds :
        /\ W(i).success
        /\ W(i).saved_count = 2
        /\ Len(W(i).chunks) = 3
        /\ NamesWritten(i) = {SliceName(0), SliceName(1)}

----------------------------------------------------------------------------
(* The cap of merge_short_chunks, checked under SpecMerge *)

\* C13: every output range of merge_short_chunks that was formed from two or
\* more input chunks stays under the cap, (end - start) * hop_size <=
\* max_frames, also when the input has gaps between its chunks.
C13_MergedUnderCap ==
    Merged =>
        \A m \in 1..Len(mrg.once) :
            (\E j \in 1..Len(mrg.input), k \in 1..Len(mrg.input) :
                 j < k /\ mrg.once[m] = <<mrg.input[j][1], mrg.input[k][2]>>) =>
                (mrg.once[m][2] - mrg.once[m][1]) * mrg.hop_size
                    <= MaxFrames(mrg.max_duration_ms, mrg.sample_rate)

----------------------------------------------------------------------------
(* is_silence applied to bounded buffers *)

\* sample values of the is_silence inputs: both signs, a value equal to a
\* threshold, full scale
SilenceLevels == {-1000, -500, 0, 1, 500, 1000}
SilenceThresholds == {1, 500}
SilenceRatios == {[num |-> 1, den |-> 10], [num |-> 1, den |-> 2]}

SilenceRuns == [n : 1..MaxRunLen, x : SilenceLevels]

\* one loud sample followed by z silent ones: the fraction 1 / (z + 1)
OneLoud(z) == <<[n |-> 1, x |-> 1000], [n |-> z, x |-> 0]>>

SilenceBuffers ==
    BoundedSeq(SilenceRuns, MaxRuns) \cup {OneLoud(z) : z \in 8..(8 + MaxRunLen)}

InitSilence ==
    /\ build \in [overflow_checks : BOOLEAN]
    /\ cfg = ScenarioCfg(0)
    /\ samples = <<>>
    /\ slicer = None
    /\ scan = ScanIdle
    /\ pc = "off"
    /\ mrg = MergeIdle
    /\ batch = BatchIdle
    /\ \E b \in SilenceBuffers, t \in SilenceThresholds, r \in SilenceRatios :
           sil = [samples |-> b, threshold |-> t, min_audio_ratio |-> r,
                  result |-> None, pc |-> "call"]

\* Slicer::is_silence(samples, threshold, min_audio_ratio)
IsSilenceCall ==
    /\ sil.pc = "call"
    /\ sil' = [sil EXCEPT
                 !.result = Some(IsSilence(sil.samples, 0, SamplesLen(sil.samples),
                                           sil.threshold, sil.min_audio_ratio)),
                 !.pc = "returned"]
    /\ UNCHANGED <<build, cfg, samples, slicer, scan, pc, mrg, batch>>

NextSilence == IsSilenceCall

SpecSilence == InitSilence /\ [][NextSilence]_vars

\* the buffer sample by sample
SilIdx == 0..(SamplesLen(sil.samples) - 1)
SilAt(k) == SampleAt(sil.samples, k)

RECURSIVE SilSquares(_)
SilSquares(k) == IF k = 0 THEN 0 ELSE SilAt(k - 1) * SilAt(k - 1) + SilSquares(k - 1)

SilLoud == {k \in SilIdx : SilAt(k) > sil.threshold \/ -SilAt(k) > sil.threshold}

SilRmsBelow ==
    SilSquares(SamplesLen(sil.samples))
        < sil.threshold * sil.threshold * SamplesLen(sil.samples)

SilRatioBelow ==
    Cardinality(SilLoud) * sil.min_audio_ratio.den
        < sil.min_audio_ratio.num * SamplesLen(sil.samples)

\* C14: is_silence returns true for an empty buffer; otherwise true when the
\* overall RMS is below threshold; otherwise true exactly when the fraction of
\* samples with |x| strictly above threshold is below min_audio_ratio.  A
\* buffer of constant 1.0 with threshold 0.5 and ratio 0.1 is not silent.
C14_IsSilenceContract ==
    sil.pc = "returned" =>
        /\ SilIdx = {} => Unwrap(sil.result)
        /\ SilIdx # {} /\ SilRmsBelow => Unwrap(sil.result)
        /\ SilIdx # {} /\ ~SilRmsBelow => (Unwrap(sil.result) <=> SilRatioBelow)
        /\ (/\ SilIdx # {}
            /\ \A k \in SilIdx : SilAt(k) = 1000
            /\ sil.threshold = 500
            /\ sil.min_audio_ratio = [num |-> 1, den |-> 10]) => ~Unwrap(sil.result)

\* the RMS is not below threshold, every sample equals the threshold in
\* magnitude with both signs present, and is_silence returned true
C14_Witness ==
    /\ sil.pc = "returned"
    /\ SamplesLen(sil.samples) >= 2
    /\ ~SilRmsBelow
    /\ \E k \in SilIdx : SilAt(k) = sil.threshold
    /\ \E k \in SilIdx : SilAt(k) = -sil.threshold
    /\ SilLoud = {}
    /\ Unwrap(sil.result)

\* constant 1.0, threshold 0.5, ratio 0.1: returned false
C14_ConstantWitness ==
    /\ sil.pc = "returned"
    /\ SilIdx # {}
    /\ \A k \in SilIdx : SilAt(k) = 1000
    /\ sil.threshold = 500
    /\ sil.min_audio_ratio = [num |-> 1, den |-> 10]
    /\ ~Unwrap(sil.result)

----------------------------------------------------------------------------
(* Bounds of the scan and of the derived geometry, checked under Spec *)

\* C15: for every buffer and every accepted configuration the scan never
\* moves clip_start past frame_count and every emitted chunk has
\* end <= frame_count, so the tail subtraction frame_count - clip_start never
\* underflows and start * hop_size <= len(samples) for every chunk.
C15_ScanInBounds ==
    (pc \in {"scan", "done", "panic"} /\ Unwrap(slicer).hop_size # 0) =>
        /\ pc # "panic"
        /\ scan.st.clip_start <= scan.frame_count
        /\ \A k \in 1..Len(Chunks) :
               /\ Chunks[k][2] <= scan.frame_count
               /\ Chunks[k][1] * Unwrap(slicer).hop_size <= SamplesLen(samples)

\* C16: every configuration accepted by Slicer::new has hop_size >= 1, so
\* slice never divides by zero computing frame_count; a configuration with
\* hop_size_ms = 0 is rejected by Slicer::new.
C16_AcceptedHopPositive ==
    /\ IsSome(slicer) => Unwrap(slicer).hop_size >= 1
    /\ cfg.hop_size_ms = 0 => pc \in {"new", "rejected"}

====
